---- MODULE Spec2Model ----
(***************************************************************************)
(* Model of unboxing.py: the pixel predicate is_pixel_black, the four edge *)
(* scans detect_{top,bottom,left,right}_border and unletterbox, which      *)
(* converts the opened image to a luminance view, scans it from the four   *)
(* edges and crops the original image by the four widths.                  *)
(*                                                                         *)
(* An image is a record [mode, size, data]: size = <<width, height>>,      *)
(* data[y+1][x+1] is the pixel at (x, y).  A pixel is the tuple of its     *)
(* bands: <<l>> for a single-band ("L") image, which Python sees as an     *)
(* int, and <<r, g, b>> for an "RGB" image, which Python sees as a tuple.  *)
(***************************************************************************)
EXTENDS Integers, Sequences, FiniteSets

VARIABLES image, black_threshold, grayscale_image, top, bottom, left, right,
          cropped_img, outcome, pc, pixel, is_black

vars == <<image, black_threshold, grayscale_image, top, bottom, left, right,
          cropped_img, outcome, pc, pixel, is_black>>

(* ---------------------------- bounds ----------------------------------- *)

(* Largest number of pixels (width * height) of an input image.           *)
MaxPixels == 9

MaxChannel == 255

(* Thresholds the pipeline is run with: the scan functions' default (0),   *)
(* the batch driver's default (10) and its successor.                      *)
Thresholds == {0, 10, 11}

(* Two-colour palettes the input images are drawn from.                    *)
Palettes ==
  { [mode |-> "L",   colours |-> {<<0>>, <<10>>}],
    [mode |-> "RGB", colours |-> {<<0, 0, 0>>, <<255, 255, 255>>}],
    [mode |-> "RGB", colours |-> {<<0, 0, 30>>, <<10, 10, 10>>}] }

(* Thresholds the widths of one image are compared across: the levels    *)
(* next to the luminances 0, 3, 10 and 255 that the palettes produce.      *)
ThresholdSamples == Thresholds \cup {1, 3, 4, MaxChannel}

(* Arguments is_pixel_black is called with directly.                       *)
ChannelSamples == {0, 10, 11, MaxChannel}

PixelArgs ==
  {<<v>> : v \in 0..MaxChannel} \cup {<<v, v, v>> : v \in 0..MaxChannel}
    \cup (ChannelSamples \X ChannelSamples \X ChannelSamples)

(* ------------------------- values not yet set -------------------------- *)

NoImage == [mode |-> "none", size |-> <<0, 0>>, data |-> <<>>]

Unset == -1

NoPixel == <<>>

NoResult == <<>>

(* ------------------------- image library ------------------------------- *)

Width(im) == im.size[1]

Height(im) == im.size[2]

(* Image.crop(box): the sub-image of the box (x0, y0, x1, y1), same mode.  *)
crop(im, box) ==
  LET w == box[3] - box[1]
      h == box[4] - box[2]
  IN [mode |-> im.mode,
      size |-> <<w, h>>,
      data |-> [j \in 1..h |-> [i \in 1..w |-> im.data[box[2] + j][box[1] + i]]]]

(* Image.getdata(): the pixels in row-major order.                         *)
getdata(im) ==
  LET w == Width(im)
      h == Height(im)
  IN [n \in 1..(w * h) |-> im.data[((n - 1) \div w) + 1][((n - 1) % w) + 1]]

(* Image.convert("L"): ITU-R 601-2 luma of an RGB pixel, in fixed point;   *)
(* a single-band pixel is copied.                                          *)
luma(p) ==
  IF Len(p) = 1 THEN p
  ELSE <<(p[1] * 19595 + p[2] * 38470 + p[3] * 7471 + 32768) \div 65536>>

convert(im) ==
  [mode |-> "L",
   size |-> im.size,
   data |-> [j \in 1..Height(im) |-> [i \in 1..Width(im) |-> luma(im.data[j][i])]]]

(* ------------------------- pixel predicate ----------------------------- *)

(* Variant: the single-band comparison is non-strict, like the RGB one.    *)
is_pixel_black_nonstrict(p, threshold) ==
  IF Len(p) = 1
    THEN p[1] <= threshold
    ELSE p[1] <= threshold /\ p[2] <= threshold /\ p[3] <= threshold

(* Variant: a pixel is border only when it equals the threshold.           *)
is_pixel_black_exact(p, threshold) ==
  IF Len(p) = 1
    THEN p[1] = threshold
    ELSE p[1] = threshold /\ p[2] = threshold /\ p[3] = threshold

is_pixel_black(p, threshold) ==
  IF Len(p) = 1
    THEN p[1] < threshold
    ELSE p[1] <= threshold /\ p[2] <= threshold /\ p[3] <= threshold

(* Variant: any() in place of all().                                       *)
any_black(pixels, threshold) ==
  \E n \in 1..Len(pixels) : is_pixel_black(pixels[n], threshold)

(* all(is_pixel_black(pixel, black_threshold) for pixel in pixels)         *)
all_black(pixels, threshold) ==
  \A n \in 1..Len(pixels) : is_pixel_black(pixels[n], threshold)

(* ------------------------- edge scans ---------------------------------- *)

(* Variant: the first non-border row is counted too (return y + 1).        *)
RECURSIVE top_loop_inclusive(_, _, _)
top_loop_inclusive(im, threshold, y) ==
  IF y >= Height(im) THEN Height(im)
  ELSE IF all_black(getdata(crop(im, <<0, y, Width(im), y + 1>>)), threshold)
    THEN top_loop_inclusive(im, threshold, y + 1)
    ELSE y + 1

RECURSIVE top_loop(_, _, _)
top_loop(im, threshold, y) ==
  IF y >= Height(im) THEN Height(im)
  ELSE IF all_black(getdata(crop(im, <<0, y, Width(im), y + 1>>)), threshold)
    THEN top_loop(im, threshold, y + 1)
    ELSE y

(* Variant: the scan starts at the second row (range(1, height)).         *)
detect_top_border_from_1(im, threshold) == top_loop(im, threshold, 1)

detect_top_border(im, threshold) == top_loop(im, threshold, 0)

(* Variant: the count is height - y, not height - y - 1.                   *)
RECURSIVE bottom_loop_off_by_one(_, _, _)
bottom_loop_off_by_one(im, threshold, y) ==
  IF y <= -1 THEN Height(im)
  ELSE IF all_black(getdata(crop(im, <<0, y, Width(im), y + 1>>)), threshold)
    THEN bottom_loop_off_by_one(im, threshold, y - 1)
    ELSE Height(im) - y

RECURSIVE bottom_loop(_, _, _)
bottom_loop(im, threshold, y) ==
  IF y <= -1 THEN Height(im)
  ELSE IF all_black(getdata(crop(im, <<0, y, Width(im), y + 1>>)), threshold)
    THEN bottom_loop(im, threshold, y - 1)
    ELSE Height(im) - y - 1

detect_bottom_border(im, threshold) == bottom_loop(im, threshold, Height(im) - 1)

RECURSIVE left_loop(_, _, _)
left_loop(im, threshold, x) ==
  IF x >= Width(im) THEN Width(im)
  ELSE IF all_black(getdata(crop(im, <<x, 0, x + 1, Height(im)>>)), threshold)
    THEN left_loop(im, threshold, x + 1)
    ELSE x

detect_left_border(im, threshold) == left_loop(im, threshold, 0)

(* Variant: the count is width - x, not width - x - 1.                     *)
RECURSIVE right_loop_off_by_one(_, _, _)
right_loop_off_by_one(im, threshold, x) ==
  IF x <= -1 THEN Width(im)
  ELSE IF all_black(getdata(crop(im, <<x, 0, x + 1, Height(im)>>)), threshold)
    THEN right_loop_off_by_one(im, threshold, x - 1)
    ELSE Width(im) - x

RECURSIVE right_loop(_, _, _)
right_loop(im, threshold, x) ==
  IF x <= -1 THEN Width(im)
  ELSE IF all_black(getdata(crop(im, <<x, 0, x + 1, Height(im)>>)), threshold)
    THEN right_loop(im, threshold, x - 1)
    ELSE Width(im) - x - 1

detect_right_border(im, threshold) == right_loop(im, threshold, Width(im) - 1)

(* ------------------------- input images -------------------------------- *)

ImagesOf(pal) ==
  UNION { { [mode |-> pal.mode, size |-> <<w, h>>, data |-> d] :
              d \in [1..h -> [1..w -> pal.colours]] } :
          <<w, h>> \in { s \in (1..MaxPixels) \X (1..MaxPixels) :
                          s[1] * s[2] <= MaxPixels } }

(* A w x h RGB image: a solid black ring of k lines, white inside.         *)
RingImage(w, h, k) ==
  [mode |-> "RGB",
   size |-> <<w, h>>,
   data |-> [j \in 1..h |-> [i \in 1..w |->
               IF i <= k \/ i > w - k \/ j <= k \/ j > h - k
                 THEN <<0, 0, 0>> ELSE <<255, 255, 255>>]]]

(* The 10 x 10 image with a 2-pixel black ring.                            *)
ScenarioImages == {RingImage(10, 10, 2)}

Images == UNION { ImagesOf(pal) : pal \in Palettes } \cup ScenarioImages

(* ------------------------- unletterbox --------------------------------- *)

Init ==
  /\ image \in Images
  /\ black_threshold \in Thresholds
  /\ grayscale_image = NoImage
  /\ top = Unset /\ bottom = Unset /\ left = Unset /\ right = Unset
  /\ cropped_img = NoImage
  /\ outcome = "running"
  /\ pc = "convert"
  /\ pixel = NoPixel
  /\ is_black = NoResult

Convert ==
  /\ pc = "convert"
  /\ grayscale_image' = convert(image)
  /\ pc' = "detect"
  /\ UNCHANGED <<image, black_threshold, top, bottom, left, right, cropped_img,
                 outcome, pixel, is_black>>

(* The four scans of the luminance view, lines 60-63.                     *)
Detect ==
  /\ pc = "detect"
  /\ top' = detect_top_border(grayscale_image, black_threshold)
  /\ bottom' = detect_bottom_border(grayscale_image, black_threshold)
  /\ left' = detect_left_border(grayscale_image, black_threshold)
  /\ right' = detect_right_border(grayscale_image, black_threshold)
  /\ pc' = "crop"
  /\ UNCHANGED <<image, black_threshold, grayscale_image, cropped_img,
                 outcome, pixel, is_black>>

(* The box handed to image.crop on line 66.                                *)
CropBox == <<left, top, Width(image) - right, Height(image) - bottom>>

(* Variant: the crop is taken from the luminance view.                     *)
CropOkFromGrayscale ==
  /\ pc = "crop"
  /\ CropBox[3] >= CropBox[1] /\ CropBox[4] >= CropBox[2]
  /\ cropped_img' = crop(grayscale_image, CropBox)
  /\ pc' = "save"
  /\ UNCHANGED <<image, black_threshold, grayscale_image, top, bottom, left,
                 right, outcome, pixel, is_black>>

(* image.crop of a box inside the image.                                   *)
CropOk ==
  /\ pc = "crop"
  /\ CropBox[3] >= CropBox[1] /\ CropBox[4] >= CropBox[2]
  /\ cropped_img' = crop(image, CropBox)
  /\ pc' = "save"
  /\ UNCHANGED <<image, black_threshold, grayscale_image, top, bottom, left,
                 right, outcome, pixel, is_black>>

(* image.crop of an inverted box: the library either rejects the box with  *)
(* its own ValueError or clamps the negative extents to an empty image,    *)
(* depending on its version.  unletterbox itself tests nothing.            *)
CropInvertedRaises ==
  /\ pc = "crop"
  /\ (CropBox[3] < CropBox[1] \/ CropBox[4] < CropBox[2])
  /\ outcome' = "ValueError"
  /\ pc' = "raised"
  /\ UNCHANGED <<image, black_threshold, grayscale_image, top, bottom, left,
                 right, cropped_img, pixel, is_black>>

CropInvertedEmpty ==
  /\ pc = "crop"
  /\ (CropBox[3] < CropBox[1] \/ CropBox[4] < CropBox[2])
  /\ cropped_img' = [mode |-> image.mode, size |-> <<0, 0>>, data |-> <<>>]
  /\ pc' = "save"
  /\ UNCHANGED <<image, black_threshold, grayscale_image, top, bottom, left,
                 right, outcome, pixel, is_black>>

(* cropped_img.save(buffer, format=image.format); return buffer.getvalue() *)
Save ==
  /\ pc = "save"
  /\ outcome' = "returned"
  /\ pc' = "done"
  /\ UNCHANGED <<image, black_threshold, grayscale_image, top, bottom, left,
                 right, cropped_img, pixel, is_black>>

(* The encoder refuses an image without pixels.                            *)
SaveEmptyRaises ==
  /\ pc = "save"
  /\ (Width(cropped_img) = 0 \/ Height(cropped_img) = 0)
  /\ outcome' = "EncodeError"
  /\ pc' = "raised"
  /\ UNCHANGED <<image, black_threshold, grayscale_image, top, bottom, left,
                 right, cropped_img, pixel, is_black>>

Next ==
  \/ Convert
  \/ Detect
  \/ CropOk
  \/ CropInvertedRaises
  \/ CropInvertedEmpty
  \/ Save
  \/ SaveEmptyRaises

Spec == Init /\ [][Next]_vars

(* ------------------- is_pixel_black called on its own ------------------ *)

InitPixel ==
  /\ pixel \in PixelArgs
  /\ black_threshold \in 0..MaxChannel
  /\ is_black = NoResult
  /\ pc = "is_pixel_black"
  /\ image = NoImage
  /\ grayscale_image = NoImage
  /\ top = Unset /\ bottom = Unset /\ left = Unset /\ right = Unset
  /\ cropped_img = NoImage
  /\ outcome = "running"

IsPixelBlack ==
  /\ pc = "is_pixel_black"
  /\ is_black' = <<is_pixel_black(pixel, black_threshold)>>
  /\ pc' = "returned"
  /\ UNCHANGED <<image, black_threshold, grayscale_image, top, bottom, left,
                 right, cropped_img, outcome, pixel>>

NextPixel == IsPixelBlack

SpecPixel == InitPixel /\ [][NextPixel]_vars

(* ------------------------- properties ---------------------------------- *)

W == Width(image)

H == Height(image)

(* The pixel of the luminance view at (x, y) passes the pixel predicate.   *)
Border(x, y) ==
  is_pixel_black(grayscale_image.data[y + 1][x + 1], black_threshold)

RowBorder(y) == \A x \in 0..(W - 1) : Border(x, y)

ColBorder(x) == \A y \in 0..(H - 1) : Border(x, y)

AllBorder == \A x \in 0..(W - 1) : \A y \in 0..(H - 1) : Border(x, y)

Scanned == pc \in {"crop", "save", "done", "raised"}

Cropped == pc \in {"save", "done"}

Degenerate == left + right >= W \/ top + bottom >= H

(* C1: whenever the four widths satisfy left+right >= width or             *)
(* top+bottom >= height, unletterbox ends in DegenerateGeometryError and   *)
(* hands back no cropped image.                                            *)
C1_DegenerateReported ==
  (pc \in {"done", "raised"} /\ Degenerate)
    => (outcome = "DegenerateGeometryError" /\ cropped_img = NoImage)

(* C2: for a W x H image with a solid black ring of k lines and a white    *)
(* interior, 2k < W and 2k < H, unletterbox with threshold 0 computes      *)
(* top = bottom = left = right = k and returns the white interior.         *)
C2_BlackRingRemoved ==
  \A k \in 1..(W \div 2) :
    (Cropped /\ black_threshold = 0 /\ 2 * k < W /\ 2 * k < H
       /\ image = RingImage(W, H, k))
      => /\ top = k /\ bottom = k /\ left = k /\ right = k
         /\ cropped_img.size = <<W - 2 * k, H - 2 * k>>
         /\ \A j \in 1..(H - 2 * k) : \A i \in 1..(W - 2 * k) :
              cropped_img.data[j][i] = <<255, 255, 255>>

(* C3: each of the four widths computed with a threshold T2 >= T is at     *)
(* least the width computed with T, and with T1 <= T at most that width.   *)
C3_Monotone ==
  pc = "crop" =>
    \A t \in ThresholdSamples :
      LET t_top == detect_top_border(grayscale_image, t)
          t_bottom == detect_bottom_border(grayscale_image, t)
          t_left == detect_left_border(grayscale_image, t)
          t_right == detect_right_border(grayscale_image, t)
      IN /\ t >= black_threshold
              => (t_top >= top /\ t_bottom >= bottom /\ t_left >= left
                    /\ t_right >= right)
         /\ t <= black_threshold
              => (t_top <= top /\ t_bottom <= bottom /\ t_left <= left
                    /\ t_right <= right)

C3_Witness ==
  /\ pc = "crop"
  /\ top > 0 /\ left > 0
  /\ \E t \in Thresholds :
       /\ t > black_threshold
       /\ detect_top_border(grayscale_image, t) > top
       /\ detect_left_border(grayscale_image, t) > left
  /\ \E t \in Thresholds :
       /\ t < black_threshold
       /\ detect_top_border(grayscale_image, t) < top

(* C4: every scan returns exactly the number of consecutive fully-border   *)
(* lines from its edge: the k nearest lines are all border, and either k   *)
(* is the full dimension or the next line has a non-border pixel.          *)
C4_ExactCount ==
  Scanned =>
    /\ \A y \in 0..(top - 1) : RowBorder(y)
    /\ (top = H \/ (top \in 0..(H - 1) /\ ~RowBorder(top)))
    /\ \A y \in (H - bottom)..(H - 1) : RowBorder(y)
    /\ (bottom = H \/ (bottom \in 0..(H - 1) /\ ~RowBorder(H - 1 - bottom)))
    /\ \A x \in 0..(left - 1) : ColBorder(x)
    /\ (left = W \/ (left \in 0..(W - 1) /\ ~ColBorder(left)))
    /\ \A x \in (W - right)..(W - 1) : ColBorder(x)
    /\ (right = W \/ (right \in 0..(W - 1) /\ ~ColBorder(W - 1 - right)))

C4_Witness ==
  /\ pc = "crop"
  /\ W = 3 /\ H = 3
  /\ top = 1 /\ bottom = 0 /\ left = 0 /\ right = 2

(* C5: is_pixel_black takes an RGB pixel as border iff R <= T, G <= T and  *)
(* B <= T, so (T, T, T) is border, and a single-band pixel as border iff   *)
(* its luminance < T, so luminance T is not border.                        *)
C5_PredicateBoundary ==
  pc = "returned" =>
    /\ Len(pixel) = 3 =>
         (is_black[1] <=> (pixel[1] <= black_threshold
                            /\ pixel[2] <= black_threshold
                            /\ pixel[3] <= black_threshold))
    /\ Len(pixel) = 1 => (is_black[1] <=> pixel[1] < black_threshold)
    /\ pixel = <<black_threshold, black_threshold, black_threshold>>
         => is_black[1]
    /\ pixel = <<black_threshold>> => ~is_black[1]

C5_Witness ==
  /\ pc = "returned"
  /\ black_threshold = 10
  /\ pixel = <<10>>
  /\ is_black = <<FALSE>>

(* C6: when the first row, the last row, the first column and the last     *)
(* column each hold a non-border pixel, the four offsets are 0 and the     *)
(* cropped image has the size and the pixels of the original.              *)
C6_NoBorderNoChange ==
  (Cropped /\ ~RowBorder(0) /\ ~RowBorder(H - 1) /\ ~ColBorder(0)
     /\ ~ColBorder(W - 1))
    => /\ top = 0 /\ bottom = 0 /\ left = 0 /\ right = 0
       /\ cropped_img = image

C6_Witness ==
  /\ pc = "save"
  /\ W = 3 /\ H = 3
  /\ ~RowBorder(0) /\ ~RowBorder(2) /\ ~ColBorder(0) /\ ~ColBorder(2)
  /\ RowBorder(1)
  /\ cropped_img = image

(* C7: for an image with at least one non-border pixel, the convert, scan  *)
(* and crop steps of unletterbox applied with the same threshold to the    *)
(* image unletterbox has produced find four offsets of 0 and give that     *)
(* image back unchanged: crop(crop(I)) = crop(I).                          *)
C7_Idempotent ==
  (Cropped /\ ~AllBorder)
    => LET again == convert(cropped_img)
           t == detect_top_border(again, black_threshold)
           b == detect_bottom_border(again, black_threshold)
           l == detect_left_border(again, black_threshold)
           r == detect_right_border(again, black_threshold)
       IN /\ t = 0 /\ b = 0 /\ l = 0 /\ r = 0
          /\ crop(cropped_img,
                  <<l, t, Width(cropped_img) - r, Height(cropped_img) - b>>)
               = cropped_img

(* unletterbox has cut the top row off, and a border pixel remains in the  *)
(* corner of the image it produced.                                        *)
C7_Witness ==
  /\ pc = "save"
  /\ W = 3 /\ H = 3
  /\ top = 1 /\ bottom = 0 /\ left = 0 /\ right = 0
  /\ cropped_img.size = <<3, 2>>
  /\ is_pixel_black(luma(cropped_img.data[1][1]), black_threshold)

(* C8: the crop is the box (left, top, width-right, height-bottom) of the  *)
(* original image: size (width-left-right) x (height-top-bottom), pixel    *)
(* (i, j) equal to the original's pixel (left+i, top+j); the scans and     *)
(* the crop change neither the original image nor the luminance view.      *)
C8_Step ==
  /\ pc \in {"detect", "crop"}
       => (image' = image /\ grayscale_image' = grayscale_image)
  /\ (pc = "crop" /\ pc' = "save" /\ ~Degenerate)
       => /\ cropped_img'.mode = image.mode
          /\ cropped_img'.size = <<W - left - right, H - top - bottom>>
          /\ \A i \in 0..(W - left - right - 1) :
               \A j \in 0..(H - top - bottom - 1) :
                 cropped_img'.data[j + 1][i + 1]
                   = image.data[top + j + 1][left + i + 1]

C8_CropFromOriginal == [][C8_Step]_vars

C8_Witness ==
  /\ pc = "save"
  /\ image.mode = "RGB"
  /\ W = 3 /\ H = 3
  /\ top = 1 /\ left = 1 /\ bottom = 0 /\ right = 0
  /\ cropped_img.size = <<2, 2>>
  /\ cropped_img.data[1][1] = <<0, 0, 30>>

(* C9: when some pixel is not border, top+bottom < height and              *)
(* left+right < width, and every non-border pixel lies inside the crop     *)
(* box, so only border pixels are removed.                                 *)
C9_NonBorderKept ==
  (Scanned /\ ~AllBorder)
    => /\ top + bottom < H
       /\ left + right < W
       /\ \A x \in 0..(W - 1) : \A y \in 0..(H - 1) :
            ~Border(x, y)
              => (left <= x /\ x < W - right /\ top <= y /\ y < H - bottom)

C9_Witness ==
  /\ pc = "crop"
  /\ W = 3 /\ H = 3
  /\ top = 1 /\ bottom = 1 /\ left = 1 /\ right = 1
  /\ ~Border(1, 1)

(* C10: top = height, bottom = height, left = width, right = width and     *)
(* 'every pixel is border' are equivalent, so top+bottom >= height iff     *)
(* left+right >= width iff the whole image is border.                      *)
C10_AllOrNothing ==
  Scanned =>
    /\ (top = H) <=> AllBorder
    /\ (bottom = H) <=> AllBorder
    /\ (left = W) <=> AllBorder
    /\ (right = W) <=> AllBorder
    /\ (top + bottom >= H) <=> AllBorder
    /\ (left + right >= W) <=> AllBorder

C10_Witness ==
  /\ pc = "crop"
  /\ W = 3 /\ H = 2
  /\ AllBorder
  /\ top = 2 /\ bottom = 2 /\ left = 3 /\ right = 3

====
